---- MODULE Spec2Model ----
(***************************************************************************)
(* Ticket normalization and chronological sectioning pipeline of the       *)
(* ticket summary application: config.py, data_processor.py,               *)
(* story_generator.py and the part of main.py that drives them.            *)
(*                                                                         *)
(* A DataFrame is a record [isNone, cols, rows]: cols is the set of column *)
(* labels, rows the sequence of rows in positional order.  A row is        *)
(* [idx, cells]: idx is the row's index label (read_csv gives 0, 1, 2, ... *)
(* and filtering and sorting carry the label along), cells maps each       *)
(* column label to a cell.  A cell is one of                               *)
(*    [k |-> "na"]                       NaN / None / NaT                  *)
(*    [k |-> "str", s |-> ...]           a string                          *)
(*    [k |-> "date", sep, mo, dd, yy, hh, mi]                              *)
(*                                       a string of the shape             *)
(*                                       mo<sep>dd<sep>yy hh:mi            *)
(*    [k |-> "ts", t |-> minutes]        a parsed Timestamp                *)
(***************************************************************************)
EXTENDS Integers, Sequences, FiniteSets, TLC

VARIABLES
    file,          \* the uploaded file: header and lines of text cells
    df,            \* main.py: df, the frame read_uploaded_file returned
    df_processed,  \* main.py: df_processed = filter_and_clean_data(df)
    product_df,    \* main.py / story_generator.py: the frame given to the sectioning
    sections,      \* the mapping divide_tickets_into_sections returned
    summary,       \* main.py: summary = get_data_summary(df_processed)
    environment,   \* generate_gemini_narrative: is the API key set, which models fail
    attempts,      \* generate_gemini_narrative: the models tried so far, in order
    narrative,     \* generate_gemini_narrative: the returned text
    pc             \* position of main()

geminiVars == <<environment, attempts, narrative>>
vars == <<file, df, df_processed, product_df, sections, summary, geminiVars, pc>>

(***************************************************************************)
(* Bounds of the model.                                                    *)
(***************************************************************************)
MaxRows == 3        \* lines of an uploaded file
MaxTickets == 38    \* rows of a frame handed directly to the sectioning
MaxOffset == 2      \* first index label of such a frame

(***************************************************************************)
(* config.py                                                               *)
(***************************************************************************)
SELECTED_COLUMNS ==
    <<"ORDER_NUMBER", "ACCEPTANCE_TIME", "COMPLETION_TIME", "CUSTOMER_COMPLETION_TIME",
      "CUSTOMER_NUMBER", "ORDER_TYPE", "PROCESSING_STATUS", "SERVICE_CATEGORY",
      "ORDER_DESCRIPTION_1", "ORDER_DESCRIPTION_2", "COMPLETION_RESULT_KB", "NOTE_MAXIMUM">>

VALID_CATEGORIES == <<"HDW", "NET", "KAI", "KAV", "GIGA", "VOD", "KAD">>

\* variant: a mapping that lacks the key KAD
CATEGORY_MAPPING_partial ==
    [KAI |-> "Broadband", NET |-> "Broadband", KAV |-> "Voice",
     GIGA |-> "GIGA", VOD |-> "VOD", HDW |-> "Hardware"]

CATEGORY_MAPPING ==
    [KAI |-> "Broadband", NET |-> "Broadband", KAV |-> "Voice", KAD |-> "TV",
     GIGA |-> "GIGA", VOD |-> "VOD", HDW |-> "Hardware"]

\* variant: two section names exchanged
STORY_SECTIONS_swapped ==
    <<"Initial Issue", "Developments", "Follow-ups", "Later Incidents", "Recent Events">>

STORY_SECTIONS ==
    <<"Initial Issue", "Follow-ups", "Developments", "Later Incidents", "Recent Events">>

(***************************************************************************)
(* Cells and frames.                                                       *)
(***************************************************************************)
NA == [k |-> "na"]
Str(s) == [k |-> "str", s |-> s]
Ts(t) == [k |-> "ts", t |-> t]
DateText(sep, mo, dd, yy, hh, mi) ==
    [k |-> "date", sep |-> sep, mo |-> mo, dd |-> dd, yy |-> yy, hh |-> hh, mi |-> mi]

isna(c) == c.k = "na"

Range(s) == {s[i] : i \in 1..Len(s)}
Min(a, b) == IF a <= b THEN a ELSE b
Max(a, b) == IF a >= b THEN a ELSE b

None == [isNone |-> TRUE, cols |-> {}, rows |-> <<>>]
\* pd.DataFrame()
EmptyDataFrame == [isNone |-> FALSE, cols |-> {}, rows |-> <<>>]
\* df.empty: any axis of length 0
empty(d) == d.cols = {} \/ Len(d.rows) = 0

\* df.iloc[start:end], a positional slice clamped to the frame as Python slices are
iloc(d, start, end) ==
    LET n == Len(d.rows)
        lo == Min(start, n)
        hi == Min(end, n)
    IN  [isNone |-> FALSE, cols |-> d.cols,
         rows |-> IF lo >= hi THEN <<>> ELSE SubSeq(d.rows, lo + 1, hi)]

(***************************************************************************)
(* story_generator.py: divide_tickets_into_sections                        *)
(***************************************************************************)
\* variant: the last section ends like the others, at (i + 1) * section_size
section_bounds_no_remainder(i, section_size, total_tickets) ==
    [start_idx |-> i * section_size,
     end_idx |-> (i + 1) * section_size]

section_bounds(i, section_size, total_tickets) ==
    \* i is the 0-based index of enumerate(STORY_SECTIONS)
    [start_idx |-> i * section_size,
     end_idx |-> IF i = Len(STORY_SECTIONS) - 1
                 THEN total_tickets
                 ELSE (i + 1) * section_size]

\* variant: total_tickets // 5 without the max(1, ...)
section_size_no_max(total_tickets) == total_tickets \div 5

\* variant: the division rounds up
section_size_ceil(total_tickets) == Max(1, (total_tickets + 4) \div 5)

section_size_of(total_tickets) == Max(1, total_tickets \div 5)

divide_tickets_into_sections(d) ==
    IF d.isNone \/ empty(d)
    THEN [i \in 1..Len(STORY_SECTIONS) |->
            [name |-> STORY_SECTIONS[i], frame |-> EmptyDataFrame]]
    ELSE LET total_tickets == Len(d.rows)
             section_size == section_size_of(total_tickets)
         IN  [i \in 1..Len(STORY_SECTIONS) |->
                LET b == section_bounds(i - 1, section_size, total_tickets)
                IN  [name |-> STORY_SECTIONS[i],
                     frame |-> iloc(d, b.start_idx, b.end_idx)]]

(***************************************************************************)
(* data_processor.py: read_uploaded_file                                   *)
(***************************************************************************)
\* strings pd.read_csv reads as missing (among its default na_values)
STR_NA_VALUES == {"", "N/A"}

read_cell(c) ==
    IF c.k = "str" /\ c.s \in STR_NA_VALUES THEN NA ELSE c

\* returns <<df, error>>; a file without a header line makes read_csv raise
read_uploaded_file(f) ==
    IF f.cols = {}
    THEN <<None, "No columns to parse from file">>
    ELSE <<[isNone |-> FALSE, cols |-> f.cols,
            rows |-> [i \in 1..Len(f.lines) |->
                        [idx |-> i - 1,
                         cells |-> [c \in f.cols |-> read_cell(f.lines[i][c])]]]],
           "">>

(***************************************************************************)
(* data_processor.py: filter_and_clean_data                                *)
(***************************************************************************)
DATE_COLUMNS == <<"ACCEPTANCE_TIME", "COMPLETION_TIME", "CUSTOMER_COMPLETION_TIME">>
text_columns ==
    <<"ORDER_DESCRIPTION_1", "ORDER_DESCRIPTION_2", "COMPLETION_RESULT_KB", "NOTE_MAXIMUM">>
FILL_VALUE == "No information available"

IsLeap(y) == (y % 4 = 0 /\ y % 100 # 0) \/ y % 400 = 0
DaysInMonth(y, m) ==
    IF m = 2 THEN (IF IsLeap(y) THEN 29 ELSE 28)
    ELSE IF m \in {4, 6, 9, 11} THEN 30 ELSE 31
RECURSIVE DaysBeforeMonth(_, _)
DaysBeforeMonth(y, m) ==
    IF m = 1 THEN 0 ELSE DaysBeforeMonth(y, m - 1) + DaysInMonth(y, m - 1)
\* days from 01/01/0001 to 01/01/y
DaysBeforeYear(y) ==
    LET p == y - 1 IN 365 * p + (p \div 4) - (p \div 100) + (p \div 400)
\* minutes from 01/01/0001 00:00
Minutes(c) ==
    ((DaysBeforeYear(c.yy) + DaysBeforeMonth(c.yy, c.mo) + (c.dd - 1)) * 24 + c.hh) * 60 + c.mi

\* does the string match DATE_FORMAT = '%m/%d/%Y %H:%M'
MatchesDateFormat(c) ==
    /\ c.k = "date"
    /\ c.sep = "/"
    /\ c.mo \in 1..12
    /\ c.yy \in 1..9999
    /\ c.dd \in 1..DaysInMonth(c.yy, c.mo)
    /\ c.hh \in 0..23
    /\ c.mi \in 0..59

\* variant: the string is converted without being matched against the format
to_datetime_unchecked(c) ==
    IF c.k = "date" THEN Ts(Minutes(c)) ELSE NA

\* pd.to_datetime(..., format=DATE_FORMAT, errors='coerce') on one cell
to_datetime(c) ==
    IF MatchesDateFormat(c) THEN Ts(Minutes(c)) ELSE NA

\* Series.map(CATEGORY_MAPPING) on one cell: a key the dict lacks gives NaN
map_category(c) ==
    IF c.k = "str" /\ c.s \in DOMAIN CATEGORY_MAPPING
    THEN Str(CATEGORY_MAPPING[c.s])
    ELSE NA

\* s.strip().upper() on the category texts of this model
upper_strip(s) ==
    CASE s = "net" -> "NET"
      [] s = " NET" -> "NET"
      [] s = "kav" -> "KAV"
      [] OTHER -> s

\* variant: the comparison ignores case and surrounding blanks
isin_normalised(c, values) ==
    c.k = "str" /\ upper_strip(c.s) \in Range(values)

\* Series.isin(values) on one cell: exact equality with one of the values
isin(c, values) ==
    c.k = "str" /\ c.s \in Range(values)

\* variant: missing values are left as they are
fillna_never(c, value) == c

\* Series.fillna(value) on one cell
fillna(c, value) ==
    IF isna(c) THEN Str(value) ELSE c

SetCell(r, col, v) ==
    [idx |-> r.idx,
     cells |-> [c \in (DOMAIN r.cells) \cup {col} |-> IF c = col THEN v ELSE r.cells[c]]]

Orders(n) ==
    {p \in [1..n -> 1..n] : \A i, j \in 1..n : i # j => p[i] # p[j]}

\* variant: missing keys are ordered first (na_position='first')
sort_orders_na_first(rows, col) ==
    LET n == Len(rows)
        key(p, i) == rows[p[i]].cells[col]
    IN  {p \in Orders(n) :
            \A i, j \in 1..n : i < j =>
                /\ ~(isna(key(p, j)) /\ ~isna(key(p, i)))
                /\ (~isna(key(p, i)) /\ ~isna(key(p, j))) => key(p, i).t <= key(p, j).t
                /\ (isna(key(p, i)) /\ isna(key(p, j))) => p[i] < p[j]}

\* variant: descending order
sort_orders_descending(rows, col) ==
    LET n == Len(rows)
        key(p, i) == rows[p[i]].cells[col]
    IN  {p \in Orders(n) :
            \A i, j \in 1..n : i < j =>
                /\ ~(isna(key(p, i)) /\ ~isna(key(p, j)))
                /\ (~isna(key(p, i)) /\ ~isna(key(p, j))) => key(p, i).t >= key(p, j).t
                /\ (isna(key(p, i)) /\ isna(key(p, j))) => p[i] < p[j]}

\* DataFrame.sort_values(col) with its defaults ascending=True,
\* kind='quicksort', na_position='last': the orders p (output position ->
\* input position) the call can produce.  Rows with a key come first, in
\* ascending key order; quicksort is not a stable sort, so rows with equal keys
\* come in an order the call does not fix; rows without a key are appended
\* after the sorted ones in their input order.
sort_orders(rows, col) ==
    LET n == Len(rows)
        key(p, i) == rows[p[i]].cells[col]
    IN  {p \in Orders(n) :
            \A i, j \in 1..n : i < j =>
                /\ ~(isna(key(p, i)) /\ ~isna(key(p, j)))
                /\ (~isna(key(p, i)) /\ ~isna(key(p, j))) => key(p, i).t <= key(p, j).t
                /\ (isna(key(p, i)) /\ isna(key(p, j))) => p[i] < p[j]}

\* variant: every column of the input is kept
available_columns_all(d) == d.cols

\* the selected columns that exist in the data
available_columns(d) == {c \in Range(SELECTED_COLUMNS) : c \in d.cols}

RECURSIVE convert_date_columns(_, _)
\* for date_col in columns: if date_col in df_filtered.columns:
\*     df_filtered[date_col] = pd.to_datetime(df_filtered[date_col], ...)
convert_date_columns(rows, columns) ==
    IF columns = <<>> THEN rows
    ELSE LET col == Head(columns)
             done == IF Len(rows) > 0 /\ col \in DOMAIN rows[1].cells
                     THEN [i \in 1..Len(rows) |->
                             SetCell(rows[i], col, to_datetime(rows[i].cells[col]))]
                     ELSE rows
         IN  convert_date_columns(done, Tail(columns))

RECURSIVE fill_text_columns(_, _)
\* for col in columns: if col in df_filtered.columns:
\*     df_filtered[col] = df_filtered[col].fillna('No information available')
fill_text_columns(rows, columns) ==
    IF columns = <<>> THEN rows
    ELSE LET col == Head(columns)
             done == IF Len(rows) > 0 /\ col \in DOMAIN rows[1].cells
                     THEN [i \in 1..Len(rows) |->
                             SetCell(rows[i], col, fillna(rows[i].cells[col], FILL_VALUE))]
                     ELSE rows
         IN  fill_text_columns(done, Tail(columns))

\* variant: the input is handed back when the category column is missing
missing_category_result_input(d) == d

\* line 47, the result when the category column is missing: pd.DataFrame()
missing_category_result(d) == EmptyDataFrame

\* the frames filter_and_clean_data(d) can return
filter_and_clean_data(d) ==
    IF d.isNone \/ empty(d) THEN {EmptyDataFrame}
    ELSE IF "SERVICE_CATEGORY" \notin available_columns(d) THEN {missing_category_result(d)}
    ELSE
      LET cols == available_columns(d)
          copied == [i \in 1..Len(d.rows) |->
                       [idx |-> d.rows[i].idx,
                        cells |-> [c \in cols |-> d.rows[i].cells[c]]]]
          kept == SelectSeq(copied,
                            LAMBDA r : isin(r.cells["SERVICE_CATEGORY"], VALID_CATEGORIES))
      IN  IF Len(kept) = 0
          THEN {[isNone |-> FALSE, cols |-> cols, rows |-> kept]}
          ELSE
            LET dated == convert_date_columns(kept, DATE_COLUMNS)
                mapped == [i \in 1..Len(dated) |->
                             SetCell(dated[i], "PRODUCT",
                                     map_category(dated[i].cells["SERVICE_CATEGORY"]))]
                orders == IF "ACCEPTANCE_TIME" \in cols
                          THEN sort_orders(mapped, "ACCEPTANCE_TIME")
                          ELSE {[i \in 1..Len(mapped) |-> i]}
            IN  {[isNone |-> FALSE, cols |-> cols \cup {"PRODUCT"},
                  rows |-> fill_text_columns([i \in 1..Len(mapped) |-> mapped[p[i]]],
                                             text_columns)]
                 : p \in orders}

(***************************************************************************)
(* data_processor.py: get_data_summary                                     *)
(***************************************************************************)
MINUTES_PER_DAY == 1440

\* Series.dropna() of a column, as the set of its cells
dropna(d, col) == {d.rows[i].cells[col] : i \in {j \in 1..Len(d.rows) : ~isna(d.rows[j].cells[col])}}

\* variant: every value present is counted once
value_counts_presence(d, col) ==
    LET present == {i \in 1..Len(d.rows) : ~isna(d.rows[i].cells[col])}
    IN  [v \in {d.rows[i].cells[col].s : i \in present} |-> 1]

\* Series.value_counts().to_dict(): the count of each non-missing value
value_counts(d, col) ==
    LET present == {i \in 1..Len(d.rows) : ~isna(d.rows[i].cells[col])}
    IN  [v \in {d.rows[i].cells[col].s : i \in present} |->
            Cardinality({i \in present : d.rows[i].cells[col].s = v})]

\* Series.nunique(): the number of distinct non-missing values
nunique(d, col) == Cardinality(dropna(d, col))

\* variant: the difference of the calendar dates
timedelta_days_calendar(lo, hi) == (hi \div MINUTES_PER_DAY) - (lo \div MINUTES_PER_DAY)

\* (valid_dates.max() - valid_dates.min()).days
timedelta_days(lo, hi) == (hi - lo) \div MINUTES_PER_DAY

\* lines 99-103 raise when the non-missing acceptance times are not Timestamps:
\* the difference of two strings is a TypeError
date_range_raises(d) ==
    /\ "ACCEPTANCE_TIME" \in d.cols
    /\ \E c \in dropna(d, "ACCEPTANCE_TIME") : c.k # "ts"

date_range_days_of(d) ==
    IF "ACCEPTANCE_TIME" \in d.cols
    THEN LET valid_dates == {c.t : c \in dropna(d, "ACCEPTANCE_TIME")}
         IN  IF valid_dates # {}
             THEN timedelta_days(CHOOSE lo \in valid_dates : \A t \in valid_dates : lo <= t,
                                 CHOOSE hi \in valid_dates : \A t \in valid_dates : hi >= t)
             ELSE 0
    ELSE 0

\* variant: the safe defaults lack the two tallies
safe_defaults_no_counts(total) ==
    [total_tickets |-> total, unique_customers |-> 0, date_range_days |-> 0]

\* lines 89-95 and 133-139, the summary of an empty frame and of the error path
safe_defaults(total) ==
    [total_tickets |-> total, unique_customers |-> 0, date_range_days |-> 0,
     product_counts |-> <<>>, category_counts |-> <<>>]

get_data_summary(d) ==
    IF d.isNone \/ empty(d) THEN safe_defaults(0)
    ELSE IF date_range_raises(d) THEN safe_defaults(Len(d.rows))
    ELSE [total_tickets |-> Len(d.rows),
          unique_customers |-> IF "CUSTOMER_NUMBER" \in d.cols
                               THEN nunique(d, "CUSTOMER_NUMBER") ELSE 0,
          date_range_days |-> date_range_days_of(d),
          product_counts |-> IF "PRODUCT" \in d.cols
                             THEN value_counts(d, "PRODUCT") ELSE <<>>,
          category_counts |-> IF "SERVICE_CATEGORY" \in d.cols
                              THEN value_counts(d, "SERVICE_CATEGORY") ELSE <<>>]

(***************************************************************************)
(* What a call leaves of the frame it was given.  filter_and_clean_data    *)
(* works on df[available_columns].copy() and every later assignment goes   *)
(* to that copy or to a new frame; the other two only read their frame.    *)
(***************************************************************************)
\* variant: without the copy the time columns of the input are converted too
input_after_filter_no_copy(d) ==
    IF d.isNone \/ empty(d) \/ "SERVICE_CATEGORY" \notin available_columns(d) THEN d
    ELSE [d EXCEPT !.rows = convert_date_columns(d.rows, DATE_COLUMNS)]

input_after_filter(d) == d
input_after_divide(d) == d
input_after_summary(d) == d

(***************************************************************************)
(* The sectioning applied to a frame of any length.                        *)
(***************************************************************************)
Blank == EmptyDataFrame
NoFile == [header |-> <<>>, lines |-> <<>>]
NoSections == <<>>
NoSummary == [none |-> TRUE]
NoEnvironment == [api_key |-> FALSE, failing |-> {}]
NoNarrative == [kind |-> "none"]

\* a product-filtered frame of n tickets whose index labels start at off
TicketFrame(n, off) ==
    [isNone |-> FALSE, cols |-> {"SERVICE_CATEGORY", "PRODUCT"},
     rows |-> [i \in 1..n |->
                [idx |-> off + i - 1,
                 cells |-> [SERVICE_CATEGORY |-> Str("KAV"), PRODUCT |-> Str("Voice")]]]]

InitSect ==
    /\ file = NoFile
    /\ df = Blank
    /\ df_processed = Blank
    /\ product_df \in {None, EmptyDataFrame}
                      \cup {TicketFrame(n, off) : n \in 0..MaxTickets, off \in 0..MaxOffset}
    /\ sections = NoSections
    /\ summary = NoSummary
    /\ environment = NoEnvironment
    /\ attempts = <<>>
    /\ narrative = NoNarrative
    /\ pc = "selected"

DivideTickets ==
    /\ pc = "selected"
    /\ sections' = divide_tickets_into_sections(product_df)
    /\ product_df' = input_after_divide(product_df)
    /\ pc' = "sectioned"
    /\ UNCHANGED <<file, df, df_processed, summary, geminiVars>>

NextSect == DivideTickets

SpecSect == InitSect /\ [][NextSect]_vars

(***************************************************************************)
(* main.py: an upload taken through reading, normalization, the choice of  *)
(* a product and the sectioning of that product's tickets.                 *)
(***************************************************************************)
\* texts of the uploaded cells
T1 == DateText("/", 12, 31, 2023, 23, 59)       \* "12/31/2023 23:59"
T2 == DateText("/", 1, 2, 2024, 10, 0)          \* "01/02/2024 10:00"
TDash == DateText("-", 1, 1, 2024, 10, 0)       \* "01-01-2024 10:00"
T3 == DateText("/", 1, 5, 2024, 9, 0)           \* "01/05/2024 09:00"
TBadDay == DateText("/", 2, 30, 2024, 10, 0)    \* "02/30/2024 10:00"
CategoryTexts ==
    {Str(c) : c \in {"HDW", "NET", "KAI", "KAV", "GIGA", "VOD", "KAD",
                     "net", " NET", "XXX", ""}}
TimeTexts == {Str(""), T1, T2, T3, TDash}
NoteTexts == {Str(""), Str("Router replaced"), Str(" ")}

SeqsUpTo(S, n) == UNION {[1..k -> S] : k \in 0..n}

\* uploads with a category column and a column that is not a selected one
CategoryFiles ==
    {[cols |-> {"SERVICE_CATEGORY", "REGION"}, lines |-> l] :
        l \in SeqsUpTo([SERVICE_CATEGORY : CategoryTexts, REGION : {Str("North")}], MaxRows)}
\* uploads with a category and an acceptance time
TimedFiles ==
    {[cols |-> {"SERVICE_CATEGORY", "ACCEPTANCE_TIME"}, lines |-> l] :
        l \in SeqsUpTo([SERVICE_CATEGORY : {Str("NET"), Str("KAV"), Str("net")},
                        ACCEPTANCE_TIME : TimeTexts], MaxRows)}
\* uploads with a category and a note
NotedFiles ==
    {[cols |-> {"SERVICE_CATEGORY", "NOTE_MAXIMUM"}, lines |-> l] :
        l \in SeqsUpTo([SERVICE_CATEGORY : {Str("KAD"), Str("XXX")},
                        NOTE_MAXIMUM : NoteTexts], MaxRows)}
\* uploads with a category and the four free-text columns
TextFiles ==
    {[cols |-> {"SERVICE_CATEGORY"} \cup Range(text_columns), lines |-> l] :
        l \in SeqsUpTo([SERVICE_CATEGORY : {Str("HDW")},
                        ORDER_DESCRIPTION_1 : {Str(""), Str("No signal")},
                        ORDER_DESCRIPTION_2 : {Str(""), Str("Since Monday")},
                        COMPLETION_RESULT_KB : {Str(""), Str("Solved")},
                        NOTE_MAXIMUM : {Str(""), Str("Router replaced")}], MaxRows)}
\* uploads with a category, the three time columns and an order type
DatedFiles ==
    {[cols |-> {"SERVICE_CATEGORY", "ORDER_TYPE"} \cup Range(DATE_COLUMNS), lines |-> l] :
        l \in SeqsUpTo([SERVICE_CATEGORY : {Str("GIGA")},
                        ORDER_TYPE : {Str("Repair")},
                        ACCEPTANCE_TIME : {Str(""), T1, TDash},
                        COMPLETION_TIME : {T2, TBadDay},
                        CUSTOMER_COMPLETION_TIME : {Str(""), T1}], MaxRows)}
\* uploads with a category and a customer number
CustomerFiles ==
    {[cols |-> {"SERVICE_CATEGORY", "CUSTOMER_NUMBER"}, lines |-> l] :
        l \in SeqsUpTo([SERVICE_CATEGORY : {Str("NET"), Str("KAI")},
                        CUSTOMER_NUMBER : {Str(""), Str("C-1"), Str("C-2")}], MaxRows)}
\* uploads without a category column
UncategorisedFiles ==
    {[cols |-> {"ACCEPTANCE_TIME", "NOTE_MAXIMUM"}, lines |-> l] :
        l \in SeqsUpTo([ACCEPTANCE_TIME : {Str(""), T1},
                        NOTE_MAXIMUM : {Str(""), Str("Router replaced")}], MaxRows)}
\* an upload without a header line
HeaderlessFile == [cols |-> {}, lines |-> <<>>]

Files ==
    CategoryFiles \cup TimedFiles \cup NotedFiles \cup TextFiles \cup DatedFiles
        \cup CustomerFiles
        \cup UncategorisedFiles \cup {HeaderlessFile}

Init ==
    /\ file \in Files
    /\ df = Blank
    /\ df_processed = Blank
    /\ product_df = Blank
    /\ sections = NoSections
    /\ summary = NoSummary
    /\ environment = NoEnvironment
    /\ attempts = <<>>
    /\ narrative = NoNarrative
    /\ pc = "uploaded"

\* main.py 91-99
ReadUploadedFile ==
    /\ pc = "uploaded"
    /\ LET res == read_uploaded_file(file)
       IN  /\ df' = res[1]
           /\ pc' = IF res[2] # "" THEN "read_error" ELSE "read"
    /\ UNCHANGED <<file, df_processed, product_df, sections, summary, geminiVars>>

\* main.py 102-103
FilterAndCleanData ==
    /\ pc = "read"
    /\ df_processed' \in filter_and_clean_data(df)
    /\ df' = input_after_filter(df)
    /\ pc' = "processed"
    /\ UNCHANGED <<file, product_df, sections, summary, geminiVars>>

\* main.py 105-107
NoValidTickets ==
    /\ pc = "processed"
    /\ df_processed.isNone \/ empty(df_processed)
    /\ pc' = "warned"
    /\ UNCHANGED <<file, df, df_processed, product_df, sections, summary, geminiVars>>

\* df_processed['PRODUCT'].unique()
Products(d) == {d.rows[i].cells["PRODUCT"] : i \in 1..Len(d.rows)}

\* variant: the selection is put back into index order (.sort_index())
select_product_sort_index(d, product) ==
    LET sel == SelectSeq(d.rows, LAMBDA r : r.cells["PRODUCT"] = product)
        rank(r) == Cardinality({q \in Range(sel) : q.idx <= r.idx})
    IN  [isNone |-> FALSE, cols |-> d.cols,
         rows |-> [i \in 1..Len(sel) |-> CHOOSE r \in Range(sel) : rank(r) = i]]

\* df_processed[df_processed['PRODUCT'] == product]
select_product(d, product) ==
    [isNone |-> FALSE, cols |-> d.cols,
     rows |-> SelectSeq(d.rows, LAMBDA r : r.cells["PRODUCT"] = product)]

\* main.py 109-112
GetDataSummary ==
    /\ pc = "processed"
    /\ ~(df_processed.isNone \/ empty(df_processed))
    /\ summary' = get_data_summary(df_processed)
    /\ df_processed' = input_after_summary(df_processed)
    /\ pc' = "stats"
    /\ UNCHANGED <<file, df, product_df, sections, geminiVars>>

\* main.py 171-191 for one selected product, and story_generator.py 209-210 for
\* each product in turn when all products are summarised
SelectProduct ==
    /\ pc = "stats"
    /\ \E product \in Products(df_processed) :
          product_df' = select_product(df_processed, product)
    /\ pc' = "product"
    /\ UNCHANGED <<file, df, df_processed, sections, summary, geminiVars>>

\* story_generator.py 146-154, create_product_summary_with_gemini up to the sectioning
CreateProductSummary ==
    /\ pc = "product"
    /\ IF product_df.isNone \/ empty(product_df)
       THEN pc' = "no_tickets" /\ UNCHANGED sections
       ELSE IF "ACCEPTANCE_TIME" \notin product_df.cols
       THEN pc' = "no_acceptance_time" /\ UNCHANGED sections
       ELSE /\ sections' = divide_tickets_into_sections(product_df)
            /\ pc' = "summarised"
    /\ product_df' = input_after_divide(product_df)
    /\ UNCHANGED <<file, df, df_processed, summary, geminiVars>>

Next ==
    \/ ReadUploadedFile
    \/ FilterAndCleanData
    \/ NoValidTickets
    \/ GetDataSummary
    \/ SelectProduct
    \/ CreateProductSummary

Spec == Init /\ [][Next]_vars

(***************************************************************************)
(* The three entry points called directly on one frame: None, an empty     *)
(* frame, a frame as read from an upload, or a normalized frame.           *)
(***************************************************************************)
EntryFiles == TimedFiles \cup CustomerFiles \cup UncategorisedFiles
RawFrames == {read_uploaded_file(f)[1] : f \in EntryFiles}
NormalizedFrames == UNION {filter_and_clean_data(d) : d \in RawFrames}
EntryFrames == {None, EmptyDataFrame} \cup RawFrames \cup NormalizedFrames

InitEntry ==
    /\ file = NoFile
    /\ df \in EntryFrames
    /\ df_processed = Blank
    /\ product_df = Blank
    /\ sections = NoSections
    /\ summary = NoSummary
    /\ environment = NoEnvironment
    /\ attempts = <<>>
    /\ narrative = NoNarrative
    /\ pc = "entry"

EntryFilter ==
    /\ pc = "entry"
    /\ df_processed' \in filter_and_clean_data(df)
    /\ df' = input_after_filter(df)
    /\ pc' = "filtered"
    /\ UNCHANGED <<file, product_df, sections, summary, geminiVars>>

EntryDivide ==
    /\ pc = "entry"
    /\ sections' = divide_tickets_into_sections(df)
    /\ df' = input_after_divide(df)
    /\ pc' = "divided"
    /\ UNCHANGED <<file, df_processed, product_df, summary, geminiVars>>

EntrySummary ==
    /\ pc = "entry"
    /\ summary' = get_data_summary(df)
    /\ df' = input_after_summary(df)
    /\ pc' = "summed"
    /\ UNCHANGED <<file, df_processed, product_df, sections, geminiVars>>

NextEntry ==
    \/ EntryFilter
    \/ EntryDivide
    \/ EntrySummary

SpecEntry == InitEntry /\ [][NextEntry]_vars

(***************************************************************************)
(* story_generator.py: setup_gemini and generate_gemini_narrative.  The    *)
(* environment says whether GEMINI_API_KEY is set and for which models the *)
(* construction of the model or generate_content raises.                   *)
(***************************************************************************)
model_names ==
    <<"gemini-1.5-flash", "gemini-1.5-pro", "gemini-pro", "models/gemini-1.5-flash",
      "models/gemini-pro">>

Environments == [api_key : BOOLEAN, failing : SUBSET Range(model_names)]

\* line 128, return response.text.strip()
model_text(model_name) == [kind |-> "model", model |-> model_name]
\* lines 137-140, the fallback narrative with str(e)
fallback_narrative(reason) == [kind |-> "fallback", reason |-> reason]

\* variant: a failed model is tried again
next_model_retry(tried) == model_names[Max(1, Len(tried))]

\* the for loop: the model after the ones tried
next_model(tried) == model_names[Len(tried) + 1]

\* variant: the response of a model is not returned
model_succeeds_never(model_name, env) == FALSE

\* lines 106-132: does the try block reach its return
model_succeeds(model_name, env) == model_name \notin env.failing

InitGemini ==
    /\ file = NoFile
    /\ df = Blank
    /\ df_processed = Blank
    /\ product_df = Blank
    /\ sections = NoSections
    /\ summary = NoSummary
    /\ environment \in Environments
    /\ attempts = <<>>
    /\ narrative = NoNarrative
    /\ pc = "narrative"

pipelineVars == <<file, df, df_processed, product_df, sections, summary>>

\* lines 93-94 and 11-16
SetupGemini ==
    /\ pc = "narrative"
    /\ IF environment.api_key
       THEN pc' = "trying" /\ UNCHANGED narrative
       ELSE /\ narrative' = fallback_narrative("Please set GEMINI_API_KEY environment variable")
            /\ pc' = "returned"
    /\ UNCHANGED <<pipelineVars, environment, attempts>>

\* lines 105-132, one pass of the loop
TryModel ==
    /\ pc = "trying"
    /\ Len(attempts) < Len(model_names)
    /\ LET model_name == next_model(attempts)
       IN  /\ attempts' = Append(attempts, model_name)
           /\ IF model_succeeds(model_name, environment)
              THEN narrative' = model_text(model_name) /\ pc' = "returned"
              ELSE UNCHANGED <<narrative, pc>>
    /\ UNCHANGED <<pipelineVars, environment>>

\* lines 134-140, the loop has ended without a return
AllModelsFailed ==
    /\ pc = "trying"
    /\ Len(attempts) >= Len(model_names)
    /\ narrative' = fallback_narrative("All Gemini models failed")
    /\ pc' = "returned"
    /\ UNCHANGED <<pipelineVars, environment, attempts>>

NextGemini ==
    \/ SetupGemini
    \/ TryModel
    \/ AllModelsFailed

\* the call is sequential code: it keeps running until it returns
SpecGemini == InitGemini /\ [][NextGemini]_vars /\ WF_vars(NextGemini)

(***************************************************************************)
(* Properties of the sectioning.                                           *)
(***************************************************************************)
RECURSIVE ConcatRows(_)
ConcatRows(secs) ==
    IF secs = <<>> THEN <<>>
    ELSE Head(secs).frame.rows \o ConcatRows(Tail(secs))

SectionLen(i) == Len(sections[i].frame.rows)
SectionSizes == [i \in 1..Len(sections) |-> SectionLen(i)]
Tickets == Len(product_df.rows)

\* the rows of a batch at the 0-based positions lo, lo + 1, ..., hi - 1 that exist
RowsAt(rows, lo, hi) ==
    LET present == {p \in lo..(hi - 1) : p < Len(rows)}
    IN  [j \in 1..Cardinality(present) |-> rows[lo + j]]

\* C1: concatenating the five sections in the fixed order reproduces the input
\* batch exactly: same rows, same order, nothing duplicated, nothing lost.
C1_SectioningExhaustive ==
    pc = "sectioned" =>
        /\ ConcatRows(sections) = product_df.rows
        /\ \A i, j \in 1..Len(ConcatRows(sections)) :
              i # j => ConcatRows(sections)[i].idx # ConcatRows(sections)[j].idx

C1_Witness ==
    /\ pc = "sectioned"
    /\ Tickets = 37
    /\ SectionSizes = <<7, 7, 7, 7, 9>>

\* C2: for a non-empty batch of length n with size = max(1, n div 5), section i
\* (0 <= i <= 3) is the rows at positions [i*size, (i+1)*size), section 4 the rows
\* at positions [4*size, n); for n >= 5 the sizes are n div 5 four times and then
\* n - 4 * (n div 5).
C2_SectionPositions ==
    (pc = "sectioned" /\ Tickets > 0) =>
        LET n == Tickets
            size == IF n \div 5 >= 1 THEN n \div 5 ELSE 1
        IN  /\ \A i \in 0..3 :
                  sections[i + 1].frame.rows = RowsAt(product_df.rows, i * size, (i + 1) * size)
            /\ sections[5].frame.rows = RowsAt(product_df.rows, 4 * size, n)
            /\ n >= 5 => SectionSizes = <<n \div 5, n \div 5, n \div 5, n \div 5,
                                           n - 4 * (n \div 5)>>

C2_Witness ==
    /\ pc = "sectioned"
    /\ Tickets = 23
    /\ SectionSizes = <<4, 4, 4, 4, 7>>

\* C3 as stated: whenever the length is not a multiple of 5, the last section has
\* strictly more rows than each of the other four.
C3_LastLargerAnyLength ==
    (pc = "sectioned" /\ Tickets % 5 # 0) =>
        \A i \in 1..4 : SectionLen(5) > SectionLen(i)

\* C3 amended: whenever the length is at least 5 and not a multiple of 5, the last
\* section has strictly more rows than each of the other four.
C3_LastLargerFromFive ==
    (pc = "sectioned" /\ Tickets >= 5 /\ Tickets % 5 # 0) =>
        \A i \in 1..4 : SectionLen(5) > SectionLen(i)

C3_Witness ==
    /\ pc = "sectioned"
    /\ Tickets = 6
    /\ SectionSizes = <<1, 1, 1, 1, 2>>

\* C4: for every input (None, empty, any length) the returned mapping has exactly
\* the five fixed section names as keys, in the fixed order, each mapped to a
\* possibly empty contiguous run of the batch's rows.
C4_FiveNamedSections ==
    pc = "sectioned" =>
        /\ [i \in 1..Len(sections) |-> sections[i].name] =
              <<"Initial Issue", "Follow-ups", "Developments", "Later Incidents",
                "Recent Events">>
        /\ \A i \in 1..Len(sections) :
              \E lo \in 0..Tickets : \E hi \in lo..Tickets :
                  sections[i].frame.rows = RowsAt(product_df.rows, lo, hi)

C4_Witness ==
    /\ pc = "sectioned"
    /\ product_df.isNone
    /\ Len(sections) = 5
    /\ \A i \in 1..5 : SectionLen(i) = 0

(***************************************************************************)
(* Properties of the normalization.                                        *)
(***************************************************************************)
\* filter_and_clean_data has returned
Processed ==
    pc \in {"processed", "warned", "stats", "product", "no_tickets", "no_acceptance_time", "summarised"}

Whitelist == {"HDW", "NET", "KAI", "KAV", "GIGA", "VOD", "KAD"}

\* the row of the input frame df with index label k
InputRow(k) == CHOOSE r \in Range(df.rows) : r.idx = k
OutIdx == {df_processed.rows[i].idx : i \in 1..Len(df_processed.rows)}
OutLen == Len(df_processed.rows)
Category(r) == r.cells["SERVICE_CATEGORY"]
\* output position of the row with index label k
OutPos(k) == CHOOSE i \in 1..OutLen : df_processed.rows[i].idx = k

\* C5: when the input has a SERVICE_CATEGORY column, the output rows are exactly
\* the input rows whose category is, case-sensitively and untrimmed, one of the
\* seven whitelist tokens, each exactly once; every other row is dropped.
C5_CategoryFilter ==
    (Processed /\ "SERVICE_CATEGORY" \in df.cols) =>
        /\ OutIdx = {r.idx : r \in {q \in Range(df.rows) :
                                      /\ Category(q).k = "str"
                                      /\ Category(q).s \in Whitelist}}
        /\ Cardinality(OutIdx) = OutLen
        /\ \A i \in 1..OutLen :
              /\ Category(df_processed.rows[i]) = Category(InputRow(df_processed.rows[i].idx))
              /\ Category(df_processed.rows[i]).k = "str"
              /\ Category(df_processed.rows[i]).s \in Whitelist

C5_Witness ==
    /\ Processed
    /\ Len(df.rows) = 3
    /\ Category(df.rows[1]) = Str(" NET")
    /\ Category(df.rows[2]) = Str("net")
    /\ Category(df.rows[3]) = Str("NET")
    /\ OutIdx = {2}
    /\ OutLen = 1

ProductOf(cat) ==
    CASE cat \in {"NET", "KAI"} -> "Broadband"
      [] cat = "KAV" -> "Voice"
      [] cat = "KAD" -> "TV"
      [] cat = "GIGA" -> "GIGA"
      [] cat = "VOD" -> "VOD"
      [] cat = "HDW" -> "Hardware"
      [] OTHER -> "?"

\* C6: every row of a non-empty normalized batch has a non-null PRODUCT, the fixed
\* image of its SERVICE_CATEGORY.
C6_ProductMapping ==
    (Processed /\ OutLen > 0) =>
        /\ "PRODUCT" \in df_processed.cols
        /\ \A i \in 1..OutLen :
              LET r == df_processed.rows[i]
              IN  /\ "PRODUCT" \in DOMAIN r.cells
                  /\ ~isna(r.cells["PRODUCT"])
                  /\ r.cells["PRODUCT"] = Str(ProductOf(Category(r).s))

C6_Witness ==
    /\ Processed
    /\ OutLen = 3
    /\ {<<Category(df_processed.rows[i]).s, df_processed.rows[i].cells["PRODUCT"].s>> :
            i \in 1..3} = {<<"KAI", "Broadband">>, <<"KAD", "TV">>, <<"NET", "Broadband">>}

AcceptanceTime(r) == r.cells["ACCEPTANCE_TIME"]

\* C7: when the input has an ACCEPTANCE_TIME column, adjacent output rows that both
\* have a non-null acceptance time are in non-decreasing order of it.
C7_AdjacentAscending ==
    (Processed /\ "ACCEPTANCE_TIME" \in df.cols /\ OutLen > 0) =>
        \A i \in 1..(OutLen - 1) :
            LET a == AcceptanceTime(df_processed.rows[i])
                b == AcceptanceTime(df_processed.rows[i + 1])
            IN  (~isna(a) /\ ~isna(b)) => a.t <= b.t

\* the upload lists 01/02/2024 before 12/31/2023; the output has them in time order
C7_Witness ==
    /\ Processed
    /\ "ACCEPTANCE_TIME" \in df.cols
    /\ Len(df.rows) >= 2
    /\ AcceptanceTime(df.rows[1]) = T2
    /\ AcceptanceTime(df.rows[2]) = T1
    /\ OutLen >= 2
    /\ df_processed.rows[1].idx = 1
    /\ df_processed.rows[2].idx = 0
    /\ ~isna(AcceptanceTime(df_processed.rows[1]))
    /\ ~isna(AcceptanceTime(df_processed.rows[2]))
    /\ AcceptanceTime(df_processed.rows[1]).t < AcceptanceTime(df_processed.rows[2]).t

\* C8: the sort is stable: two retained rows with equal ACCEPTANCE_TIME keep their
\* input order, and without an ACCEPTANCE_TIME column the retained rows keep
\* their input order.
C8_StableSort ==
    (Processed /\ "SERVICE_CATEGORY" \in df.cols /\ OutLen > 0) =>
        \A i, j \in 1..OutLen :
            LET ri == df_processed.rows[i]
                rj == df_processed.rows[j]
            IN  (i < j /\ ("ACCEPTANCE_TIME" \in df.cols => AcceptanceTime(ri) = AcceptanceTime(rj)))
                    => ri.idx < rj.idx

\* C9: for each free-text column present in the input, an output row whose input
\* value was null or empty holds "No information available", any other row keeps
\* its text, and no output row is null in that column.
C9_TextFill ==
    (Processed /\ OutLen > 0) =>
        \A col \in {"ORDER_DESCRIPTION_1", "ORDER_DESCRIPTION_2", "COMPLETION_RESULT_KB",
                    "NOTE_MAXIMUM"} \cap df.cols :
            \A i \in 1..OutLen :
                LET r == df_processed.rows[i]
                    in == InputRow(r.idx).cells[col]
                    uploaded == file.lines[r.idx + 1][col]
                IN  /\ col \in DOMAIN r.cells
                    /\ ~isna(r.cells[col])
                    /\ (isna(in) \/ in = Str("")) => r.cells[col] = Str("No information available")
                    /\ uploaded = Str("") => r.cells[col] = Str("No information available")
                    /\ ~(isna(in) \/ in = Str("")) => r.cells[col] = in

C9_Witness ==
    /\ Processed
    /\ file.cols = {"SERVICE_CATEGORY", "NOTE_MAXIMUM"}
    /\ Len(file.lines) = 3
    /\ file.lines[1]["NOTE_MAXIMUM"] = Str("")
    /\ file.lines[2]["NOTE_MAXIMUM"] = Str(" ")
    /\ file.lines[3]["NOTE_MAXIMUM"] = Str("Router replaced")
    /\ OutLen = 3
    /\ df_processed.rows[1].cells["NOTE_MAXIMUM"] = Str("No information available")
    /\ df_processed.rows[2].cells["NOTE_MAXIMUM"] = Str(" ")
    /\ df_processed.rows[3].cells["NOTE_MAXIMUM"] = Str("Router replaced")

\* C10: an input without a SERVICE_CATEGORY column normalizes to an empty batch
\* whatever else it holds, returned as a normal result that main treats as
\* "no valid tickets".
C10_MissingCategoryColumn ==
    (Processed /\ "SERVICE_CATEGORY" \notin df.cols) =>
        /\ ~df_processed.isNone
        /\ Len(df_processed.rows) = 0
        /\ empty(df_processed)
        /\ pc \in {"processed", "warned"}

C10_Witness ==
    /\ pc = "warned"
    /\ "SERVICE_CATEGORY" \notin df.cols
    /\ Len(df.rows) >= 2
    /\ \E i \in 1..Len(df.rows) : ~isna(df.rows[i].cells["NOTE_MAXIMUM"])
    /\ Len(df_processed.rows) = 0

\* the Timestamp (minutes from 01/01/0001 00:00) of an uploaded time text, NaT for
\* a text that is empty or not of the form MM/DD/YYYY HH:MM
ExpectedTime(c) ==
    CASE c = T1 -> Ts(1063994399)
      [] c = T2 -> Ts(1063996440)
      [] c = T3 -> Ts(1064000700)
      [] OTHER -> NA

\* C11: a row with a whitelisted category is retained whatever its time values
\* are; each of its three time fields that is empty or does not match
\* MM/DD/YYYY HH:MM becomes null on its own, its other time fields hold their
\* parsed times, its other fields and the other rows are as in the input, and
\* the call returns a frame.
C11_FieldAnomalyKeepsRow ==
    (Processed /\ "SERVICE_CATEGORY" \in df.cols) =>
        \A r \in Range(df.rows) :
            (Category(r).k = "str" /\ Category(r).s \in Whitelist) =>
                /\ r.idx \in OutIdx
                /\ ~df_processed.isNone
                /\ LET o == df_processed.rows[OutPos(r.idx)]
                   IN  /\ \A col \in {"ACCEPTANCE_TIME", "COMPLETION_TIME",
                                      "CUSTOMER_COMPLETION_TIME"} \cap df.cols :
                              o.cells[col] = ExpectedTime(r.cells[col])
                       /\ \A col \in {"SERVICE_CATEGORY", "ORDER_TYPE"} \cap df.cols :
                              o.cells[col] = r.cells[col]

C11_Witness ==
    /\ Processed
    /\ df.cols = {"SERVICE_CATEGORY", "ORDER_TYPE", "ACCEPTANCE_TIME", "COMPLETION_TIME",
                  "CUSTOMER_COMPLETION_TIME"}
    /\ Len(df.rows) = 2
    /\ df.rows[1].cells["ACCEPTANCE_TIME"] = TDash
    /\ df.rows[1].cells["COMPLETION_TIME"] = T2
    /\ df.rows[1].cells["CUSTOMER_COMPLETION_TIME"] = NA
    /\ df.rows[2].cells["ACCEPTANCE_TIME"] = T1
    /\ df.rows[2].cells["COMPLETION_TIME"] = TBadDay
    /\ OutLen = 2
    /\ df_processed.rows[1].idx = 1
    /\ df_processed.rows[2].cells["ACCEPTANCE_TIME"] = NA
    /\ df_processed.rows[2].cells["COMPLETION_TIME"] = Ts(1063996440)
    /\ df_processed.rows[2].cells["CUSTOMER_COMPLETION_TIME"] = NA
    /\ df_processed.rows[1].cells["COMPLETION_TIME"] = NA

(***************************************************************************)
(* Properties of the summary and of the entry points.                      *)
(***************************************************************************)
SummaryFields ==
    {"total_tickets", "unique_customers", "date_range_days", "product_counts",
     "category_counts"}

IsTally(t) == \A key \in DOMAIN t : t[key] \in Nat /\ t[key] > 0

\* C12: on an empty input filter_and_clean_data returns an empty batch,
\* divide_tickets_into_sections five empty sections and get_data_summary zeros
\* and empty tallies; for every input get_data_summary returns all five fields,
\* each holding a value.
C12_EmptyInputs ==
    /\ (pc = "filtered" /\ (df.isNone \/ empty(df))) =>
          ~df_processed.isNone /\ Len(df_processed.rows) = 0
    /\ (pc = "divided" /\ (df.isNone \/ empty(df))) =>
          /\ Len(sections) = 5
          /\ \A i \in 1..5 : Len(sections[i].frame.rows) = 0
    /\ (pc = "summed" /\ (df.isNone \/ empty(df))) =>
          summary = [total_tickets |-> 0, unique_customers |-> 0, date_range_days |-> 0,
                     product_counts |-> <<>>, category_counts |-> <<>>]
    /\ pc = "summed" =>
          /\ DOMAIN summary = SummaryFields
          /\ summary.total_tickets \in Nat
          /\ summary.unique_customers \in Nat
          /\ summary.date_range_days \in Int
          /\ IsTally(summary.product_counts)
          /\ IsTally(summary.category_counts)

\* the summary of a frame that has a header and no rows
C12_Witness ==
    /\ pc = "summed"
    /\ df.cols # {}
    /\ Len(df.rows) = 0
    /\ summary.total_tickets = 0
    /\ DOMAIN summary.category_counts = {}

\* main has computed the summary of the normalized batch
Summarised == pc \in {"stats", "product", "no_tickets", "no_acceptance_time", "summarised"}

CountOf(tally, key) == IF key \in DOMAIN tally THEN tally[key] ELSE 0
RECURSIVE SumOver(_, _)
SumOver(tally, keys) ==
    IF keys = {} THEN 0
    ELSE LET key == CHOOSE x \in keys : TRUE
         IN  tally[key] + SumOver(tally, keys \ {key})
CategoriesOf(product) == {c \in Whitelist : ProductOf(c) = product}
ProductNames == {"Broadband", "Voice", "TV", "GIGA", "VOD", "Hardware"}

\* C13: for a normalized batch total_tickets is the number of rows,
\* category_counts the tally of SERVICE_CATEGORY and product_counts the tally of
\* PRODUCT; both tallies sum to total_tickets and a product's count is the sum
\* of the counts of the categories mapped to it.
C13_Tallies ==
    Summarised =>
        /\ summary.total_tickets = OutLen
        /\ DOMAIN summary.category_counts \subseteq Whitelist
        /\ \A c \in Whitelist :
              CountOf(summary.category_counts, c) =
                  Cardinality({i \in 1..OutLen : Category(df_processed.rows[i]) = Str(c)})
        /\ DOMAIN summary.product_counts \subseteq ProductNames
        /\ \A product \in ProductNames :
              /\ CountOf(summary.product_counts, product) =
                    Cardinality({i \in 1..OutLen :
                                    df_processed.rows[i].cells["PRODUCT"] = Str(product)})
              /\ CountOf(summary.product_counts, product) =
                    SumOver([c \in Whitelist |-> CountOf(summary.category_counts, c)],
                            CategoriesOf(product))
        /\ SumOver(summary.category_counts, DOMAIN summary.category_counts)
              = summary.total_tickets
        /\ SumOver(summary.product_counts, DOMAIN summary.product_counts)
              = summary.total_tickets

\* three uploaded rows NET, XXX, KAI: two tickets, both Broadband
C13_Witness ==
    /\ Summarised
    /\ Len(df.rows) = 3
    /\ Category(df.rows[1]) = Str("NET")
    /\ Category(df.rows[2]) = Str("XXX")
    /\ Category(df.rows[3]) = Str("KAI")
    /\ summary.total_tickets = 2
    /\ summary.category_counts = [NET |-> 1, KAI |-> 1]
    /\ summary.product_counts = [Broadband |-> 2]

\* every acceptance time of the frame is a Timestamp or missing
TimesParsed(d) ==
    "ACCEPTANCE_TIME" \in d.cols =>
        \A i \in 1..Len(d.rows) : d.rows[i].cells["ACCEPTANCE_TIME"].k \in {"ts", "na"}
DatedTimes(d) ==
    IF "ACCEPTANCE_TIME" \in d.cols
    THEN {d.rows[i].cells["ACCEPTANCE_TIME"].t :
             i \in {j \in 1..Len(d.rows) : d.rows[j].cells["ACCEPTANCE_TIME"].k = "ts"}}
    ELSE {}
DatedRows(d) ==
    IF "ACCEPTANCE_TIME" \in d.cols
    THEN {j \in 1..Len(d.rows) : d.rows[j].cells["ACCEPTANCE_TIME"].k = "ts"}
    ELSE {}

\* C14: date_range_days is the number of whole days between the earliest and the
\* latest non-null ACCEPTANCE_TIME; it is 0 for an empty batch, a batch without
\* the column and a batch with fewer than two dated rows, and never negative.
C14_DateRangeDays ==
    (pc = "summed" /\ TimesParsed(df)) =>
        /\ summary.date_range_days >= 0
        /\ (df.isNone \/ empty(df) \/ "ACCEPTANCE_TIME" \notin df.cols
               \/ Cardinality(DatedRows(df)) < 2) => summary.date_range_days = 0
        /\ \A lo, hi \in DatedTimes(df) :
              (\A t \in DatedTimes(df) : lo <= t /\ t <= hi) =>
                  /\ summary.date_range_days * 1440 <= hi - lo
                  /\ hi - lo < (summary.date_range_days + 1) * 1440

\* 12/31/2023 23:59 to 01/05/2024 09:00 is 4 days and 9 hours
C14_Witness ==
    /\ pc = "summed"
    /\ DatedTimes(df) = {1063994399, 1064000700}
    /\ summary.date_range_days = 4

SectionRows(i) == sections[i].frame.rows

\* C16: when the normalized batch is restricted to one product and sectioned, the
\* sections are chronological: for sections i < j every non-null ACCEPTANCE_TIME
\* in section i is at most every non-null ACCEPTANCE_TIME in section j.
C16_SectionsChronological ==
    pc = "summarised" =>
        \A i, j \in 1..Len(sections) :
            i < j =>
                \A a \in 1..Len(SectionRows(i)) : \A b \in 1..Len(SectionRows(j)) :
                    LET ta == AcceptanceTime(SectionRows(i)[a])
                        tb == AcceptanceTime(SectionRows(j)[b])
                    IN  (~isna(ta) /\ ~isna(tb)) => ta.t <= tb.t

\* three Broadband tickets uploaded latest first come out earliest first
C16_Witness ==
    /\ pc = "summarised"
    /\ Len(product_df.rows) = 3
    /\ \A i \in 1..3 : Len(SectionRows(i)) = 1
    /\ SectionRows(1)[1].idx = 2 /\ AcceptanceTime(SectionRows(1)[1]) = Ts(1063994399)
    /\ SectionRows(2)[1].idx = 1 /\ AcceptanceTime(SectionRows(2)[1]) = Ts(1063996440)
    /\ SectionRows(3)[1].idx = 0 /\ AcceptanceTime(SectionRows(3)[1]) = Ts(1064000700)

\* C18: in the output for an input with an ACCEPTANCE_TIME column every row with
\* a null acceptance time comes after every row with a non-null one; when the
\* batch is sectioned the undated rows hold the final positions, so no dated
\* row is in the same section after, or in a later section than, an undated row.
C18_UndatedLast ==
    /\ (Processed /\ "ACCEPTANCE_TIME" \in df.cols /\ OutLen > 0) =>
          \A i, j \in 1..OutLen :
              (i < j /\ isna(AcceptanceTime(df_processed.rows[i])))
                  => isna(AcceptanceTime(df_processed.rows[j]))
    /\ pc = "summarised" =>
          /\ \A a, b \in 1..Len(ConcatRows(sections)) :
                (a < b /\ isna(AcceptanceTime(ConcatRows(sections)[a])))
                    => isna(AcceptanceTime(ConcatRows(sections)[b]))
          /\ \A i, j \in 1..Len(sections) :
                (i < j /\ \E a \in 1..Len(SectionRows(i)) : isna(AcceptanceTime(SectionRows(i)[a])))
                    => \A b \in 1..Len(SectionRows(j)) : isna(AcceptanceTime(SectionRows(j)[b]))

\* the undated ticket was uploaded first and is in the last non-empty section
C18_Witness ==
    /\ pc = "summarised"
    /\ Len(product_df.rows) = 3
    /\ isna(AcceptanceTime(df.rows[1]))
    /\ Len(SectionRows(3)) = 1
    /\ SectionRows(3)[1].idx = 0
    /\ isna(AcceptanceTime(SectionRows(3)[1]))
    /\ ~isna(AcceptanceTime(SectionRows(1)[1]))
    /\ ~isna(AcceptanceTime(SectionRows(2)[1]))

(***************************************************************************)
(* Properties of the narrative generation.                                 *)
(***************************************************************************)
ModelOrder ==
    <<"gemini-1.5-flash", "gemini-1.5-pro", "gemini-pro", "models/gemini-1.5-flash",
      "models/gemini-pro">>

\* the models are tried in the fixed order, each only after the one before failed
TriedInOrder ==
    /\ Len(attempts) <= 5
    /\ \A k \in 1..Len(attempts) : attempts[k] = ModelOrder[k]
    /\ \A k \in 1..(Len(attempts) - 1) : attempts[k] \in environment.failing

\* what the call returns
ReturnedAsClaimed ==
    pc = "returned" =>
        IF ~environment.api_key
        THEN narrative.kind = "fallback" /\ attempts = <<>>
        ELSE IF \A k \in 1..5 : ModelOrder[k] \in environment.failing
        THEN narrative.kind = "fallback" /\ attempts = ModelOrder
        ELSE /\ narrative.kind = "model"
             /\ narrative.model = attempts[Len(attempts)]
             /\ narrative.model \notin environment.failing
             /\ \A k \in 1..5 :
                   (ModelOrder[k] \notin environment.failing
                      /\ \A h \in 1..(k - 1) : ModelOrder[h] \in environment.failing)
                       => attempts = SubSeq(ModelOrder, 1, k)

\* C17: the models are tried in the fixed order, model k+1 only after model k
\* failed, none after the first success, whose text is returned; without an API
\* key or with five failures the fallback narrative is returned; there are at
\* most five attempts and the call always returns.
C17_NarrativeAttempts ==
    /\ [](TriedInOrder /\ ReturnedAsClaimed)
    /\ [][pc = "returned" => (attempts' = attempts /\ narrative' = narrative)]_vars
    /\ <>(pc = "returned")

\* two models failed, the third answered
C17_Witness ==
    /\ pc = "returned"
    /\ environment.api_key
    /\ attempts = <<"gemini-1.5-flash", "gemini-1.5-pro", "gemini-pro">>
    /\ narrative = [kind |-> "model", model |-> "gemini-pro"]

====
